---------------------------- MODULE Spec2Model ----------------------------
(***************************************************************************)
(* linkedin-jobs-api (src/index.js): the filter normalizer (Query), the    *)
(* URL builder (Query.prototype.url), the document parser (parseJobList),  *)
(* the fetch orchestrator (Query.prototype.getJobs) and the result cache   *)
(* (JobCache).                                                             *)
(*                                                                         *)
(* JavaScript strings are modelled as tuples of one-character strings, so  *)
(* that trim, toLowerCase, replace and percent-encoding are computed       *)
(* character by character.  A literal of the code that is only ever        *)
(* concatenated (the URL's scheme and path, the default host, a parameter  *)
(* name) is one multi-character element of such a tuple; none of them      *)
(* holds a character that percent-encoding changes.                        *)
(* JavaScript values are tagged records:                                   *)
(*   [undef |-> TRUE]      undefined (a missing property)                  *)
(*   [str |-> chars]       a string                                        *)
(*   [num |-> n]           an integer number                               *)
(*   [nan |-> TRUE]        NaN                                             *)
(*   [inherited |-> key]   a member inherited from Object.prototype        *)
(*   [throw |-> name]      an exception raised instead of a value          *)
(***************************************************************************)
EXTENDS Integers, Sequences, FiniteSets, TLC

VARIABLES
  \* --- fetch orchestrator and result cache (Spec) ---
  now,                \* Date.now(), in ms
  ticks,              \* number of clock advances so far
  failures,           \* number of failed requests so far
  cache,              \* JobCache.cache: key -> [data, timestamp]
  storedBy,           \* history: key -> invocation whose cache.set wrote the entry
  unswept,            \* history: the cache as it would be had clearCache never run
  received,           \* history: per invocation, the non-empty batches its requests brought
  pc,                 \* per invocation: position in getJobs
  query,              \* per invocation: new Query(queryObject), the FilterState
  allJobs,            \* per invocation: the accumulator
  start,              \* per invocation: the loop's start offset
  consecutiveErrors,  \* per invocation: the loop's error counter
  timer,              \* per invocation: ms of the delay being awaited (0: none)
  result,             \* per invocation: what the promise resolved with
  requests,           \* history: per invocation, requests issued (axios.get calls)
  failRun,            \* history: per invocation, failed requests since the last successful one
  startedAfter,       \* history: per invocation, who acted last before it was invoked
  hitWriter,          \* history: per invocation, the writer of the entry it was answered from
  backedAt,           \* history: per invocation, the timestamp of the entry holding its result
  lastActor,          \* history: the invocation that took the latest step (0: none)
  lastEvent,          \* history: what that step was
  \* --- filter normalizer and URL builder (SpecUrl) ---
  rawQuery,           \* the queryObject under construction
  upc,                \* "new" -> "constructed" -> "rendered"
  filterState,        \* new Query(rawQuery)
  renderStart,        \* the start argument of url()
  rendered,           \* url(renderStart)
  \* --- document parser (SpecParse) ---
  document,           \* the listing containers ($("li")) of the fetched markup
  ppc,                \* "fetched" -> "parsed"
  parsed              \* parseJobList(document)

orchVars  == <<now, ticks, failures, cache, storedBy, unswept, received, pc, query, allJobs, start,
               consecutiveErrors, timer, result, requests, failRun,
               startedAfter, hitWriter, backedAt, lastActor, lastEvent>>
urlVars   == <<rawQuery, upc, filterState, renderStart, rendered>>
parseVars == <<document, ppc, parsed>>
vars      == <<orchVars, urlVars, parseVars>>

---------------------------------------------------------------------------
(* JavaScript values *)

Undefined  == [undef |-> TRUE]
NaN        == [nan |-> TRUE]
Str(s)     == [str |-> s]
Num(n)     == [num |-> n]
Throw(e)   == [throw |-> e]

IsUndefined(v) == "undef" \in DOMAIN v
IsStr(v)       == "str" \in DOMAIN v
IsNum(v)       == "num" \in DOMAIN v
IsNaN(v)       == "nan" \in DOMAIN v
IsInherited(v) == "inherited" \in DOMAIN v
IsThrow(v)     == "throw" \in DOMAIN v

EmptyStr == Str(<<>>)

\* ToBoolean: undefined, NaN, "" and 0 are falsy.
Truthy(v) ==
  IF IsUndefined(v) \/ IsNaN(v) THEN FALSE
  ELSE IF IsStr(v) THEN Len(v.str) > 0
  ELSE IF IsNum(v) THEN v.num # 0
  ELSE TRUE

\* a || b
Or(a, b) == IF Truthy(a) THEN a ELSE b

---------------------------------------------------------------------------
(* Characters and strings *)

UpperCase == <<"A","B","C","D","E","F","G","H","I","J","K","L","M","N","O","P","Q","R","S","T","U","V","W","X","Y","Z">>
LowerCase == <<"a","b","c","d","e","f","g","h","i","j","k","l","m","n","o","p","q","r","s","t","u","v","w","x","y","z">>
Digits    == <<"0","1","2","3","4","5","6","7","8","9">>

Range(s) == {s[i] : i \in DOMAIN s}

\* \s of the regular expressions and of String.prototype.trim
IsSpace(c) == c = " "

\* String.prototype.toLowerCase, one character
ToLowerChar(c) ==
  IF \E i \in DOMAIN UpperCase : UpperCase[i] = c
  THEN LowerCase[CHOOSE i \in DOMAIN UpperCase : UpperCase[i] = c]
  ELSE c

\* String.prototype.toLowerCase
toLowerCase(s) == [i \in DOMAIN s |-> ToLowerChar(s[i])]

RECURSIVE TrimLeft(_)
TrimLeft(s) == IF s # <<>> /\ IsSpace(Head(s)) THEN TrimLeft(Tail(s)) ELSE s

RECURSIVE TrimRight(_)
TrimRight(s) ==
  IF s # <<>> /\ IsSpace(s[Len(s)]) THEN TrimRight(SubSeq(s, 1, Len(s) - 1)) ELSE s

\* String.prototype.trim
trim(s) == TrimRight(TrimLeft(s))

\* s.replace(/\s+/g, rep): every maximal run of white space becomes rep
RECURSIVE ReplaceSpaceRuns(_, _)
ReplaceSpaceRuns(s, rep) ==
  IF s = <<>> THEN <<>>
  ELSE IF IsSpace(Head(s))
       THEN rep \o ReplaceSpaceRuns(TrimLeft(s), rep)
       ELSE <<Head(s)>> \o ReplaceSpaceRuns(Tail(s), rep)

DigitValue(c) == (CHOOSE i \in DOMAIN Digits : Digits[i] = c) - 1

IsDigits(s) == s # <<>> /\ \A i \in DOMAIN s : s[i] \in Range(Digits)

RECURSIVE DigitsValue(_)
DigitsValue(s) ==
  IF s = <<>> THEN 0
  ELSE 10 * DigitsValue(SubSeq(s, 1, Len(s) - 1)) + DigitValue(s[Len(s)])

\* String(n) for an integer n
RECURSIVE NatToStr(_)
NatToStr(n) == IF n < 10 THEN <<Digits[n + 1]>> ELSE NatToStr(n \div 10) \o <<Digits[(n % 10) + 1]>>

NumToStr(n) == IF n < 0 THEN <<"-">> \o NatToStr(-n) ELSE NatToStr(n)

\* Number(v), for undefined, integers and strings of the modelled alphabet
\* (white space, sign, decimal digits, letters): a string that is not an
\* optionally signed run of digits gives NaN, the empty string gives 0.
Number(v) ==
  IF IsNum(v) \/ IsNaN(v) THEN v
  ELSE IF IsStr(v) THEN
    LET s == trim(v.str) IN
      IF s = <<>> THEN Num(0)
      ELSE IF IsDigits(s) THEN Num(DigitsValue(s))
      ELSE IF Head(s) \in {"-", "+"} /\ IsDigits(Tail(s))
           THEN Num((IF Head(s) = "-" THEN -1 ELSE 1) * DigitsValue(Tail(s)))
      ELSE NaN
  ELSE NaN

---------------------------------------------------------------------------
(* Property lookup on an object literal: own keys first, then the members *)
(* every object inherits from Object.prototype.                            *)

FunctionSource(name) ==
  <<"f","u","n","c","t","i","o","n"," ">> \o name \o <<"(",")">>
    \o <<" ","{"," ","[","n","a","t","i","v","e"," ","c","o","d","e","]"," ","}">>

\* String(member) for the inherited members a lookup can reach
ObjectPrototype ==
  (<<"c","o","n","s","t","r","u","c","t","o","r">> :> FunctionSource(<<"O","b","j","e","c","t">>))
  @@ (<<"t","o","S","t","r","i","n","g">> :> FunctionSource(<<"t","o","S","t","r","i","n","g">>))
  @@ (<<"v","a","l","u","e","O","f">> :> FunctionSource(<<"v","a","l","u","e","O","f">>))
  @@ (<<"_","_","p","r","o","t","o","_","_">> :> <<"[","o","b","j","e","c","t"," ","O","b","j","e","c","t","]">>)

\* table[key]
Lookup(table, key) ==
  IF key \in DOMAIN table THEN Str(table[key])
  ELSE IF key \in DOMAIN ObjectPrototype THEN [inherited |-> key]
  ELSE Undefined

\* String(v), as URLSearchParams.append converts its value
JsString(v) ==
  IF IsStr(v) THEN v.str
  ELSE IF IsNum(v) THEN NumToStr(v.num)
  ELSE IF IsInherited(v) THEN ObjectPrototype[v.inherited]
  ELSE IF IsNaN(v) THEN <<"N","a","N">>
  ELSE <<"u","n","d","e","f","i","n","e","d">>

\* the property key a value is converted to in table[value]
ToPropertyKey(v) == JsString(v)

---------------------------------------------------------------------------
(* Filter normalizer: new Query(queryObj) *)

DefaultHost == <<"www.linkedin.com">>

\* queryObj.field?.trim().replace(/\s+/g, "+") || ""
NormalizeText(v) ==
  IF IsUndefined(v) THEN EmptyStr
  ELSE IF IsStr(v) THEN Or(Str(ReplaceSpaceRuns(trim(v.str), <<"+">>)), EmptyStr)
  ELSE Throw("TypeError")

Query(queryObj) ==
  LET keyword  == NormalizeText(queryObj.keyword)
      location == NormalizeText(queryObj.location)
  IN IF IsThrow(keyword) \/ IsThrow(location) THEN Throw("TypeError")
     ELSE [ host            |-> Or(queryObj.host, Str(DefaultHost)),
            keyword         |-> keyword,
            location        |-> location,
            dateSincePosted |-> Or(queryObj.dateSincePosted, EmptyStr),
            jobType         |-> Or(queryObj.jobType, EmptyStr),
            remoteFilter    |-> Or(queryObj.remoteFilter, EmptyStr),
            salary          |-> Or(queryObj.salary, EmptyStr),
            experienceLevel |-> Or(queryObj.experienceLevel, EmptyStr),
            sortBy          |-> Or(queryObj.sortBy, EmptyStr),
            limit           |-> Or(Number(queryObj.limit), Num(0)),
            page            |-> Or(Number(queryObj.page), Num(0)) ]

---------------------------------------------------------------------------
(* Lookup tables *)

dateRange ==
  (<<"p","a","s","t"," ","m","o","n","t","h">> :> <<"r","2","5","9","2","0","0","0">>)
  @@ (<<"p","a","s","t"," ","w","e","e","k">> :> <<"r","6","0","4","8","0","0">>)
  @@ (<<"2","4","h","r">> :> <<"r","8","6","4","0","0">>)

experienceRange ==
  (<<"i","n","t","e","r","n","s","h","i","p">> :> <<"1">>)
  @@ (<<"e","n","t","r","y"," ","l","e","v","e","l">> :> <<"2">>)
  @@ (<<"a","s","s","o","c","i","a","t","e">> :> <<"3">>)
  @@ (<<"s","e","n","i","o","r">> :> <<"4">>)
  @@ (<<"d","i","r","e","c","t","o","r">> :> <<"5">>)
  @@ (<<"e","x","e","c","u","t","i","v","e">> :> <<"6">>)

jobTypeRange ==
  (<<"f","u","l","l"," ","t","i","m","e">> :> <<"F">>)
  @@ (<<"f","u","l","l","-","t","i","m","e">> :> <<"F">>)
  @@ (<<"p","a","r","t"," ","t","i","m","e">> :> <<"P">>)
  @@ (<<"p","a","r","t","-","t","i","m","e">> :> <<"P">>)
  @@ (<<"c","o","n","t","r","a","c","t">> :> <<"C">>)
  @@ (<<"t","e","m","p","o","r","a","r","y">> :> <<"T">>)
  @@ (<<"v","o","l","u","n","t","e","e","r">> :> <<"V">>)
  @@ (<<"i","n","t","e","r","n","s","h","i","p">> :> <<"I">>)

remoteFilterRange ==
  (<<"o","n","-","s","i","t","e">> :> <<"1">>)
  @@ (<<"o","n"," ","s","i","t","e">> :> <<"1">>)
  @@ (<<"r","e","m","o","t","e">> :> <<"2">>)
  @@ (<<"h","y","b","r","i","d">> :> <<"3">>)

salaryRange ==
  (<<"4","0","0","0","0">> :> <<"1">>)
  @@ (<<"6","0","0","0","0">> :> <<"2">>)
  @@ (<<"8","0","0","0","0">> :> <<"3">>)
  @@ (<<"1","0","0","0","0","0">> :> <<"4">>)
  @@ (<<"1","2","0","0","0","0">> :> <<"5">>)

\* table[field.toLowerCase()] || "": toLowerCase is a method of strings only
LowerCaseLookup(table, field) ==
  IF IsStr(field) THEN Or(Lookup(table, toLowerCase(field.str)), EmptyStr)
  ELSE Throw("TypeError")

getDateSincePosted(q) == LowerCaseLookup(dateRange, q.dateSincePosted)

getExperienceLevel(q) == LowerCaseLookup(experienceRange, q.experienceLevel)

getJobType(q) == LowerCaseLookup(jobTypeRange, q.jobType)

getRemoteFilter(q) == LowerCaseLookup(remoteFilterRange, q.remoteFilter)

getSalary(q) == Or(Lookup(salaryRange, ToPropertyKey(q.salary)), EmptyStr)

BATCH_SIZE == 25

getPage(q) == q.page.num * 25

---------------------------------------------------------------------------
(* URL builder: Query.prototype.url *)

\* application/x-www-form-urlencoded, as URLSearchParams.toString() writes it:
\* letters, digits and * - . _ stay, a space becomes +, any other character
\* becomes % and its two hexadecimal digits.
PercentCode ==
  ("+" :> <<"%","2","B">>) @@ ("(" :> <<"%","2","8">>) @@ (")" :> <<"%","2","9">>)
  @@ ("{" :> <<"%","7","B">>) @@ ("}" :> <<"%","7","D">>)
  @@ ("[" :> <<"%","5","B">>) @@ ("]" :> <<"%","5","D">>)
  @@ ("/" :> <<"%","2","F">>) @@ (":" :> <<"%","3","A">>) @@ ("?" :> <<"%","3","F">>)
  @@ ("=" :> <<"%","3","D">>) @@ ("&" :> <<"%","2","6">>) @@ ("%" :> <<"%","2","5">>)

UrlEncodeChar(c) ==
  IF IsSpace(c) THEN <<"+">>
  ELSE IF c \in DOMAIN PercentCode THEN PercentCode[c]
  ELSE <<c>>

RECURSIVE UrlEncode(_)
UrlEncode(s) == IF s = <<>> THEN <<>> ELSE UrlEncodeChar(Head(s)) \o UrlEncode(Tail(s))

\* URLSearchParams.toString(): name=value pairs joined by &
RECURSIVE Serialize(_)
Serialize(params) ==
  IF params = <<>> THEN <<>>
  ELSE UrlEncode(params[1][1]) \o <<"=">> \o UrlEncode(params[1][2])
       \o (IF Len(params) > 1 THEN <<"&">> \o Serialize(Tail(params)) ELSE <<>>)

\* if (value) params.append(name, value)
AppendIf(name, value) == IF Truthy(value) THEN <<<<name, JsString(value)>>>> ELSE <<>>

\* the URLSearchParams list url(start) builds, in the order of its appends
UrlParams(q, s) ==
  AppendIf(<<"keywords">>, q.keyword)
  \o AppendIf(<<"location">>, q.location)
  \o AppendIf(<<"f_TPR">>, getDateSincePosted(q))
  \o AppendIf(<<"f_SB2">>, getSalary(q))
  \o AppendIf(<<"f_E">>, getExperienceLevel(q))
  \o AppendIf(<<"f_WT">>, getRemoteFilter(q))
  \o AppendIf(<<"f_JT">>, getJobType(q))
  \o <<<<(<<"start">>), NumToStr(s + getPage(q))>>>>
  \o (IF q.sortBy = Str(<<"r","e","c","e","n","t">>)
        THEN <<<<(<<"sortBy">>), <<"D","D">>>>>>
      ELSE IF q.sortBy = Str(<<"r","e","l","e","v","a","n","t">>)
        THEN <<<<(<<"sortBy">>), <<"R">>>>>>
      ELSE <<>>)

UrlPrefix(q) ==
  <<"https://">> \o JsString(q.host)
  \o <<"/jobs-guest/jobs/api/seeMoreJobPostings/search?">>

url(q, s) ==
  IF \/ IsThrow(getDateSincePosted(q)) \/ IsThrow(getExperienceLevel(q))
     \/ IsThrow(getRemoteFilter(q)) \/ IsThrow(getJobType(q))
  THEN Throw("TypeError")
  ELSE Str(UrlPrefix(q) \o Serialize(UrlParams(q, s)))

---------------------------------------------------------------------------
(* Inputs of the filter normalizer: the queryObject a caller passes *)

EnumFields == {"dateSincePosted", "jobType", "remoteFilter", "salary", "experienceLevel", "sortBy"}

QueryFields == EnumFields \cup {"host", "keyword", "location", "limit", "page"}

\* {}: every field missing
EmptyQueryObject == [f \in QueryFields |-> Undefined]

ToUpperChar(c) ==
  IF \E i \in DOMAIN LowerCase : LowerCase[i] = c
  THEN UpperCase[CHOOSE i \in DOMAIN LowerCase : LowerCase[i] = c]
  ELSE c

toUpperCase(s) == [i \in DOMAIN s |-> ToUpperChar(s[i])]

Capitalize(s) == [i \in DOMAIN s |-> IF i = 1 THEN ToUpperChar(s[i]) ELSE s[i]]

\* the keys the documentation lists for sortBy (url() compares, it has no table)
sortByKeys == {<<"r","e","c","e","n","t">>, <<"r","e","l","e","v","a","n","t">>}

TableKeys(f) ==
  CASE f = "dateSincePosted" -> DOMAIN dateRange
    [] f = "jobType"         -> DOMAIN jobTypeRange
    [] f = "remoteFilter"    -> DOMAIN remoteFilterRange
    [] f = "salary"          -> DOMAIN salaryRange
    [] f = "experienceLevel" -> DOMAIN experienceRange
    [] f = "sortBy"          -> sortByKeys

\* free text that is no key of any table
UnknownTexts ==
  { <<"y","e","s","t","e","r","d","a","y">>,
    <<"c","o","n","s","t","r","u","c","t","o","r">>,
    <<"t","o","S","t","r","i","n","g">>,
    <<"5","0","0","0","0">> }

\* what a caller may pass for enum field f: a key as documented, a key in
\* another letter case, a key of another field, unknown text, or (for the
\* salary) a number
EnumInputs(f) ==
  {Str(k) : k \in TableKeys(f)}
  \cup {Str(toUpperCase(k)) : k \in TableKeys(f)}
  \cup {Str(Capitalize(k)) : k \in TableKeys(f)}
  \cup {Str(k) : k \in UNION {TableKeys(g) : g \in EnumFields}}
  \cup {Str(t) : t \in UnknownTexts}
  \cup (IF f = "salary" THEN {Num(40000), Num(50000)} ELSE {})

TextInputs == {Undefined, Str(<<" ","a"," "," ","b"," ">>)}

PageInputs == {Undefined, Str(<<"1">>), Num(2)}

\* queryObjects with at most one enum field set
RawQueries ==
  UNION { { [EmptyQueryObject EXCEPT ![f] = v, !.keyword = k, !.location = l, !.page = p] :
              k \in TextInputs, l \in {Undefined, Str(<<"I","n","d","i","a">>)},
              p \in PageInputs, v \in EnumInputs(f) } : f \in EnumFields }

\* what a caller may pass for limit and page: nothing, a number, a numeric
\* string, a negative number or string, text that is no number, blank text
NumberInputs ==
  { Undefined, Num(0), Num(3), Str(<<"2">>), Str(<<" ","1","0"," ">>), Num(-1),
    Str(<<"-","2">>), Str(<<"a","b","c">>), Str(<<"1","0","p","x">>), Str(<<" ">>) }

\* queryObjects that set limit and page
NumericQueries ==
  { [EmptyQueryObject EXCEPT !.keyword = Str(<<"a">>), !.limit = l, !.page = p] :
      l \in NumberInputs, p \in NumberInputs }

RenderStarts == {0, BATCH_SIZE}

---------------------------------------------------------------------------
(* SpecUrl: construct a Query from a queryObject, then render url(start) *)

NoValue == [none |-> TRUE]

UrlIdle ==
  /\ rawQuery = EmptyQueryObject /\ upc = "off" /\ filterState = NoValue
  /\ renderStart = 0 /\ rendered = NoValue

ParseIdle == document = <<>> /\ ppc = "off" /\ parsed = <<>>

\* const query = new Query(queryObject)
Construct ==
  /\ upc = "new"
  /\ filterState' = Query(rawQuery)
  /\ upc' = IF IsThrow(Query(rawQuery)) THEN "threw" ELSE "constructed"
  /\ UNCHANGED <<rawQuery, renderStart, rendered>>

\* query.url(start)
Render(s) ==
  /\ upc = "constructed"
  /\ rendered' = url(filterState, s)
  /\ renderStart' = s
  /\ upc' = "rendered"
  /\ UNCHANGED <<rawQuery, filterState>>

---------------------------------------------------------------------------
(* Result cache: class JobCache *)

\* this.TTL = 1000 * 60 * 60
TTL == 3600000

EmptyCache == [k \in {} |-> NoValue]

\* mutant: the comparison made inclusive
Expired_Inclusive(item, t) == t - item.timestamp >= TTL

\* Date.now() - item.timestamp > this.TTL
Expired(item, t) == t - item.timestamp > TTL

CacheDelete(c, key) == [k \in DOMAIN c \ {key} |-> c[k]]

\* mutant: set appends to the entry it finds
JobCacheSet_Append(c, key, value, t) ==
  [k \in DOMAIN c \cup {key} |->
     IF k = key
     THEN [data |-> (IF key \in DOMAIN c THEN c[key].data ELSE <<>>) \o value, timestamp |-> t]
     ELSE c[k]]

\* JobCache.set(key, value) at time t
JobCacheSet(c, key, value, t) ==
  [k \in DOMAIN c \cup {key} |->
     IF k = key THEN [data |-> value, timestamp |-> t] ELSE c[k]]

\* JobCache.get(key) at time t: what it returns (NoValue for null) ...
JobCacheGet(c, key, t) ==
  IF key \notin DOMAIN c THEN NoValue
  ELSE IF Expired(c[key], t) THEN NoValue
  ELSE c[key].data

\* ... and the cache it leaves
JobCacheAfterGet(c, key, t) ==
  IF key \in DOMAIN c /\ Expired(c[key], t) THEN CacheDelete(c, key) ELSE c

\* mutant: clear empties the cache
JobCacheClear_All(c, t) == EmptyCache

\* JobCache.clear() at time t
JobCacheClear(c, t) ==
  [k \in {x \in DOMAIN c : ~Expired(c[x], t)} |-> c[k]]

---------------------------------------------------------------------------
(* The remote source, as the orchestrator sees it through fetchJobBatch:   *)
(* the records parseJobList extracts from the response to url(start).      *)

LargeSource == 27
SmallSource == 3

\* how many valid listings the source holds for a search
Available(q) ==
  IF q.keyword = Str(<<"a">>) THEN LargeSource
  ELSE IF q.keyword = Str(<<"b">>) THEN SmallSource
  ELSE 0

Min(a, b) == IF a <= b THEN a ELSE b
Max(a, b) == IF a >= b THEN a ELSE b

\* the listings at positions from+1 .. to of the source's result list for q
SourceRange(q, from, to) ==
  [n \in 1 .. Max(Min(to, Available(q)) - Max(from, 0), 0) |->
     [search |-> q.keyword.str, pos |-> Max(from, 0) + n]]

\* the response to GET url(s): one page of BATCH_SIZE listings from the
\* offset the URL's start parameter names
fetchJobBatch(q, s) ==
  SourceRange(q, s + getPage(q), s + getPage(q) + BATCH_SIZE)

---------------------------------------------------------------------------
(* Fetch orchestrator: Query.prototype.getJobs *)

MaxInv      == 2
MaxTicks    == 2
MaxFailures == 3

InvIds == 1 .. MaxInv

MAX_CONSECUTIVE_ERRORS == 3

\* the clock advances by one millisecond or by one TTL
TickSteps == {1, TTL}

\* Math.random() * 1000, sampled at its ends
Jitter == {0, 999}

\* the queryObjects callers pass
QueryObjects ==
  { [EmptyQueryObject EXCEPT !.keyword = Str(<<"a">>)],
    [EmptyQueryObject EXCEPT !.keyword = Str(<<"a">>), !.limit = Str(<<"2">>)],
    [EmptyQueryObject EXCEPT !.keyword = Str(<<"a">>), !.limit = Str(<<"2","6">>)],
    [EmptyQueryObject EXCEPT !.keyword = Str(<<"b">>), !.limit = Num(5)],
    [EmptyQueryObject EXCEPT !.keyword = Str(<<"c">>), !.limit = Str(<<"1">>)] }

\* array.slice(0, n)
Slice0(a, n) ==
  IF n >= 0 THEN SubSeq(a, 1, Min(n, Len(a))) ELSE SubSeq(a, 1, Max(Len(a) + n, 0))

\* mutant: an empty batch does not end the loop
EndOfResults_Never(jobs) == FALSE

\* if (!jobs || jobs.length === 0)
EndOfResults(jobs) == Len(jobs) = 0

\* mutant: the limit is never reached
LimitReached_Never(q, jobs) == FALSE

\* if (this.limit && allJobs.length >= this.limit)
LimitReached(q, jobs) == Truthy(q.limit) /\ Len(jobs) >= q.limit.num

\* mutant: the ceiling compared strictly
ErrorCeilingReached_Strict(n) == n > MAX_CONSECUTIVE_ERRORS

\* if (consecutiveErrors >= MAX_CONSECUTIVE_ERRORS)
ErrorCeilingReached(n) == n >= MAX_CONSECUTIVE_ERRORS

\* mutant: the accumulator is not stored
CacheAfterLoop_NoStore(c, q, jobs, t) == c

\* mutant: the accumulator is stored even when it is empty
CacheAfterLoop_Always(c, q, jobs, t) == JobCacheSet(c, url(q, 0), jobs, t)

\* if (allJobs.length > 0) cache.set(this.url(0), allJobs)
CacheAfterLoop(c, q, jobs, t) ==
  IF Len(jobs) > 0 THEN JobCacheSet(c, url(q, 0), jobs, t) ELSE c

\* mutant: the pacing delay without its base
PacingDelay_JitterOnly(jitter) == jitter

\* 2000 + Math.random() * 1000
PacingDelay(jitter) == 2000 + jitter

\* mutant: the backoff does not grow
BackoffDelay_Fixed(n) == 2 * 1000

\* Math.pow(2, consecutiveErrors) * 1000
BackoffDelay(n) == (2 ^ n) * 1000

\* mutant: a successful batch leaves the error counter alone
ErrorsAfterBatch_Keep(n) == n

\* consecutiveErrors = 0
ErrorsAfterBatch(n) == 0

\* mutant: the offset skips a batch
NextStart_Skip(s) == s + 2 * BATCH_SIZE

\* start += BATCH_SIZE
NextStart(s) == s + BATCH_SIZE

\* the loop is left: cache the accumulator if it is not empty, return it
Finish(i, q, jobs) ==
  /\ cache' = CacheAfterLoop(cache, q, jobs, now)
  /\ unswept' = CacheAfterLoop(unswept, q, jobs, now)
  /\ storedBy' = [k \in DOMAIN cache' |->
                    IF k \in DOMAIN cache /\ cache'[k] = cache[k] /\ k \in DOMAIN storedBy
                    THEN storedBy[k] ELSE i]
  /\ allJobs' = [allJobs EXCEPT ![i] = jobs]
  /\ result' = [result EXCEPT ![i] = jobs]
  /\ pc' = [pc EXCEPT ![i] = "done"]
  /\ timer' = [timer EXCEPT ![i] = 0]
  /\ backedAt' = [backedAt EXCEPT ![i] = now]

\* query(queryObject): new Query, getJobs up to its first await
Invoke(i, queryObject) ==
  LET q   == Query(queryObject)
      key == url(q, 0)
      cachedJobs == JobCacheGet(cache, key, now)
  IN /\ pc[i] = "idle"
     /\ query' = [query EXCEPT ![i] = q]
     /\ cache' = JobCacheAfterGet(cache, key, now)
     /\ unswept' = JobCacheAfterGet(unswept, key, now)
     /\ storedBy' = [k \in DOMAIN cache' |-> storedBy[k]]
     /\ startedAfter' = [startedAfter EXCEPT ![i] = lastActor]
     /\ lastActor' = i
     /\ IF cachedJobs # NoValue
        THEN /\ result' = [result EXCEPT ![i] = cachedJobs]
             /\ pc' = [pc EXCEPT ![i] = "done"]
             /\ hitWriter' = [hitWriter EXCEPT ![i] = storedBy[key]]
             /\ backedAt' = [backedAt EXCEPT ![i] = cache[key].timestamp]
             /\ lastEvent' = "hit"
             /\ UNCHANGED requests
        ELSE /\ pc' = [pc EXCEPT ![i] = "fetching"]
             /\ requests' = [requests EXCEPT ![i] = 1]
             /\ lastEvent' = IF key \in DOMAIN cache THEN "expired" ELSE "miss"
             /\ UNCHANGED <<result, hitWriter, backedAt>>
     /\ UNCHANGED <<now, ticks, failures, allJobs, start, consecutiveErrors, timer, failRun,
                    received>>

\* the awaited fetchJobBatch(start) resolves with the records jobs
BatchArrives(i, jobs, jitter) ==
  LET q    == query[i]
      acc  == allJobs[i] \o jobs
  IN /\ pc[i] = "fetching"
     /\ lastActor' = i
     /\ lastEvent' = IF jobs = <<>> THEN "empty" ELSE "batch"
     /\ received' = IF jobs = <<>> THEN received
                    ELSE [received EXCEPT ![i] = Append(@, [offset |-> start[i], jobs |-> jobs])]
     /\ IF EndOfResults(jobs)
        THEN /\ Finish(i, q, allJobs[i])
             /\ UNCHANGED <<consecutiveErrors, start, failRun>>
        ELSE IF LimitReached(q, acc)
        THEN /\ Finish(i, q, Slice0(acc, q.limit.num))
             /\ failRun' = [failRun EXCEPT ![i] = 0]
             /\ UNCHANGED <<consecutiveErrors, start>>
        ELSE /\ allJobs' = [allJobs EXCEPT ![i] = acc]
             /\ consecutiveErrors' = [consecutiveErrors EXCEPT ![i] = ErrorsAfterBatch(@)]
             /\ start' = [start EXCEPT ![i] = NextStart(@)]
             /\ timer' = [timer EXCEPT ![i] = PacingDelay(jitter)]
             /\ pc' = [pc EXCEPT ![i] = "pacing"]
             /\ failRun' = [failRun EXCEPT ![i] = 0]
             /\ UNCHANGED <<cache, storedBy, unswept, result, backedAt>>
     /\ UNCHANGED <<now, ticks, failures, query, requests, startedAfter, hitWriter>>

\* the source answers the request with its page at the offset
BatchSuccess(i, jitter) == BatchArrives(i, fetchJobBatch(query[i], start[i]), jitter)

\* the awaited fetchJobBatch(start) rejects: transport error, timeout,
\* a status other than 200, or 429 ("Rate limit reached")
RequestFails(i) ==
  LET q == query[i]
      n == consecutiveErrors[i] + 1
  IN /\ pc[i] = "fetching"
     /\ failures' = failures + 1
     /\ consecutiveErrors' = [consecutiveErrors EXCEPT ![i] = n]
     /\ failRun' = [failRun EXCEPT ![i] = @ + 1]
     /\ lastActor' = i
     /\ lastEvent' = "failure"
     /\ IF ErrorCeilingReached(n)
        THEN Finish(i, q, allJobs[i])
        ELSE /\ timer' = [timer EXCEPT ![i] = BackoffDelay(n)]
             /\ pc' = [pc EXCEPT ![i] = "backoff"]
             /\ UNCHANGED <<cache, storedBy, unswept, allJobs, result, backedAt>>
     /\ UNCHANGED <<now, ticks, query, start, requests, startedAfter, hitWriter, received>>

\* a request fails, as long as the run's budget of failures lasts
BatchFailure(i) == failures < MaxFailures /\ RequestFails(i)

\* the awaited delay elapses: the loop issues the next request
Resume(i) ==
  /\ pc[i] \in {"pacing", "backoff"}
  /\ pc' = [pc EXCEPT ![i] = "fetching"]
  /\ timer' = [timer EXCEPT ![i] = 0]
  /\ requests' = [requests EXCEPT ![i] = @ + 1]
  /\ lastActor' = i
  /\ lastEvent' = "request"
  /\ UNCHANGED <<now, ticks, failures, cache, storedBy, unswept, received, query, allJobs, start,
                 consecutiveErrors, result, failRun, startedAfter, hitWriter, backedAt>>

\* time passes
Tick(d) ==
  /\ ticks < MaxTicks
  /\ ticks' = ticks + 1
  /\ now' = now + d
  /\ UNCHANGED <<failures, cache, storedBy, unswept, received, pc, query, allJobs, start,
                 consecutiveErrors,
                 timer, result, requests, failRun, startedAfter, hitWriter,
                 backedAt, lastActor, lastEvent>>

\* module.exports.getCacheSize: cache.cache.size, a read that changes nothing
getCacheSize(c) == Cardinality(DOMAIN c)

\* module.exports.clearCache
ClearCache ==
  /\ cache' = JobCacheClear(cache, now)
  /\ cache' # cache
  /\ storedBy' = [k \in DOMAIN cache' |-> storedBy[k]]
  /\ UNCHANGED <<now, ticks, failures, unswept, received, pc, query, allJobs, start,
                 consecutiveErrors, timer, result, requests, failRun, startedAfter,
                 hitWriter, backedAt, lastActor, lastEvent>>

OrchInit ==
  /\ now = 0 /\ ticks = 0 /\ failures = 0
  /\ cache = EmptyCache /\ storedBy = EmptyCache /\ unswept = EmptyCache
  /\ received = [i \in InvIds |-> <<>>]
  /\ pc = [i \in InvIds |-> "idle"]
  /\ query = [i \in InvIds |-> NoValue]
  /\ allJobs = [i \in InvIds |-> <<>>]
  /\ start = [i \in InvIds |-> 0]
  /\ consecutiveErrors = [i \in InvIds |-> 0]
  /\ timer = [i \in InvIds |-> 0]
  /\ result = [i \in InvIds |-> <<>>]
  /\ requests = [i \in InvIds |-> 0]
  /\ failRun = [i \in InvIds |-> 0]
  /\ startedAfter = [i \in InvIds |-> 0]
  /\ hitWriter = [i \in InvIds |-> 0]
  /\ backedAt = [i \in InvIds |-> 0]
  /\ lastActor = 0 /\ lastEvent = "none"

Init == OrchInit /\ UrlIdle /\ ParseIdle

Next ==
  /\ \/ \E i \in InvIds, o \in QueryObjects : Invoke(i, o)
     \/ \E i \in InvIds, j \in Jitter : BatchSuccess(i, j)
     \/ \E i \in InvIds : BatchFailure(i)
     \/ \E i \in InvIds : Resume(i)
     \/ \E d \in TickSteps : Tick(d)
     \/ ClearCache
  /\ UNCHANGED <<urlVars, parseVars>>

Spec == Init /\ [][Next]_vars

---------------------------------------------------------------------------
(* SpecLoop: one invocation against a source and a transport that may do   *)
(* anything: every request is answered by a batch of any size from 0 to    *)
(* MaxBatch, or fails.                                                     *)

MaxBatch    == 2
MaxRequests == 10

\* queries with no limit, with the limits 1, 2 and 3, and with a negative limit
LoopQueryObjects ==
  { [EmptyQueryObject EXCEPT !.keyword = Str(<<"a">>), !.limit = l] :
      l \in {Undefined, Str(<<"1">>), Num(2), Str(<<"3">>), Num(-1)} }

\* a page of k listings at offset s
AnyBatch(q, s, k) == [n \in 1 .. k |-> [search |-> q.keyword.str, pos |-> s + n]]

\* the next request may be issued while the run's budget of requests lasts
LoopResume(i) == requests[i] < MaxRequests /\ Resume(i)

NextLoop ==
  /\ \/ \E o \in LoopQueryObjects : Invoke(1, o)
     \/ \E k \in 0 .. MaxBatch, j \in Jitter :
          BatchArrives(1, AnyBatch(query[1], start[1], k), j)
     \/ RequestFails(1)
     \/ LoopResume(1)
  /\ UNCHANGED <<urlVars, parseVars>>

\* every awaited promise settles: a request within its timeout, a delay
\* when its timer fires
SpecLoop == Init /\ [][NextLoop]_vars /\ WF_vars(NextLoop)

---------------------------------------------------------------------------
InitUrl ==
  /\ OrchInit /\ ParseIdle
  /\ rawQuery \in RawQueries \cup NumericQueries /\ upc = "new" /\ filterState = NoValue
  /\ renderStart = 0 /\ rendered = NoValue

NextUrl ==
  /\ \/ Construct
     \/ \E s \in RenderStarts : Render(s)
  /\ UNCHANGED <<orchVars, parseVars>>

SpecUrl == InitUrl /\ [][NextUrl]_vars

---------------------------------------------------------------------------
(* Document parser: parseJobList *)

\* A listing container (an li element) is a record of what its selectors
\* find: NoValue where no element matches, [text |-> chars] for an element
\* read with .text(), [attr |-> value] for an element read with .attr(name),
\* value being Undefined when the element lacks the attribute.

\* job.find(selector).text()
Text(el) == IF el = NoValue THEN <<>> ELSE el.text

\* job.find(selector).attr(name)
Attr(el) == IF el = NoValue THEN Undefined ELSE el.attr

\* mutant: a listing is dropped only when both texts are empty
IsValidListing_Either(position, company) == position # <<>> \/ company # <<>>

\* if (!position || !company) return null
IsValidListing(position, company) == position # <<>> /\ company # <<>>

Null == [null |-> TRUE]

\* the callback of jobs.map: the record of one listing, or null
ParseListing(job) ==
  LET position    == trim(Text(job.title))
      company     == trim(Text(job.subtitle))
      location    == trim(Text(job.location))
      date        == Attr(job.time)
      salary      == ReplaceSpaceRuns(trim(Text(job.salaryInfo)), <<" ">>)
      jobUrl      == Attr(job.link)
      companyLogo == Attr(job.image)
      agoTime     == trim(Text(job.listdate))
  IN IF ~IsValidListing(position, company) THEN Null
     ELSE [ position    |-> Str(position),
            company     |-> Str(company),
            location    |-> Str(location),
            date        |-> date,
            salary      |-> Or(Str(salary), Str(<<"Not specified">>)),
            jobUrl      |-> Or(jobUrl, EmptyStr),
            companyLogo |-> Or(companyLogo, EmptyStr),
            agoTime     |-> Or(Str(agoTime), EmptyStr) ]

\* jobs.map(callback).get().filter(Boolean): the records in document order,
\* the nulls left out
parseJobList(jobData) ==
  SelectSeq([i \in DOMAIN jobData |-> ParseListing(jobData[i])], LAMBDA r : r # Null)

MaxListings == 3

BareListing ==
  [ title |-> NoValue, subtitle |-> NoValue, location |-> NoValue, time |-> NoValue,
    salaryInfo |-> NoValue, link |-> NoValue, image |-> NoValue, listdate |-> NoValue ]

\* a complete search card
FullListing(t) ==
  [ title      |-> [text |-> <<" ">> \o t \o <<" ">>],
    subtitle   |-> [text |-> <<" ","c","o"," ">>],
    location   |-> [text |-> <<"I","n","d","i","a">>],
    time       |-> [attr |-> Str(<<"2","0","2","3","-","1","1","-","2","0">>)],
    salaryInfo |-> [text |-> <<"1"," "," ","2">>],
    link       |-> [attr |-> Str(<<"u">>)],
    image      |-> [attr |-> Str(<<"l">>)],
    listdate   |-> [text |-> <<"2"," ","d","a","y","s"," ","a","g","o">>] ]

\* the listing containers a fetched page may hold
Listings ==
  { FullListing(<<"a">>),
    FullListing(<<"b">>),
    [FullListing(<<"d">>) EXCEPT !.title = NoValue],
    [FullListing(<<"e">>) EXCEPT !.subtitle = [text |-> <<" "," ">>]],
    [FullListing(<<"f">>) EXCEPT !.time = NoValue, !.salaryInfo = NoValue],
    [FullListing(<<"g">>) EXCEPT !.time = [attr |-> Undefined], !.link = [attr |-> Undefined],
                                 !.image = NoValue, !.listdate = NoValue, !.location = NoValue],
    [BareListing EXCEPT !.title = [text |-> <<"h">>], !.subtitle = [text |-> <<"c">>]],
    BareListing }

Documents == UNION { [1 .. n -> Listings] : n \in 0 .. MaxListings }

\* parseJobList(response.data)
Parse ==
  /\ ppc = "fetched"
  /\ parsed' = parseJobList(document)
  /\ ppc' = "parsed"
  /\ UNCHANGED document

---------------------------------------------------------------------------
(* Claims about the fetch orchestrator and the result cache (Spec) *)

Invoked(i) == pc[i] # "idle"

\* the records a query is meant to see: those from its page offset on
Expected(q, count) == SourceRange(q, getPage(q), getPage(q) + count)

\* C1: a query with limit N > 0, in any cache state earlier queries left and
\* with no failed request, returns exactly the first min(N, totalAvailable)
\* records of the source.
C1_LimitReturnsFirstMinRecords ==
  \A i \in InvIds :
    (pc[i] = "done" /\ query[i].limit.num > 0 /\ failures = 0)
      => result[i] = Expected(query[i], query[i].limit.num)

\* C2: queries whose FilterStates differ have different cache keys, so a
\* query is never answered from an entry stored by a query with another
\* FilterState.
C2_AnsweredOnlyFromSameFilterState ==
  \A i \in InvIds :
    (pc[i] = "done" /\ hitWriter[i] # 0) =>
      query[hitWriter[i]] = query[i]

\* C3 as stated: of two invocations with identical filters, the second
\* started right after a step of the first (the first resolved or still
\* awaiting) and within the TTL window, only the first issues requests, and
\* the second returns what the first returned.
C3_SecondNeverFetches ==
  \A a, b \in InvIds :
    (a # b /\ Invoked(b) /\ startedAfter[b] = a /\ query[a] = query[b] /\ now <= TTL)
      => /\ requests[b] = 0
         /\ (pc[a] = "done" /\ pc[b] = "done") => result[b] = result[a]

\* C3 amended: when the second invocation starts right after the first
\* RESOLVED with a NON-EMPTY sequence (no other invocation acting between
\* them) and the entry holding that sequence is no older than the TTL, the
\* second issues no request and returns the first's sequence.
C3_SecondAfterResolvedFirstIsCached ==
  [][\A a, b \in InvIds :
       ( /\ a # b /\ lastActor = a /\ pc[a] = "done" /\ result[a] # <<>>
         /\ pc[b] = "idle" /\ pc'[b] # "idle" /\ query'[b] = query[a]
         /\ now - backedAt[a] <= TTL )
       => (pc'[b] = "done" /\ result'[b] = result[a] /\ requests'[b] = 0)]_vars

C3_Witness ==
  \E a, b \in InvIds :
    /\ a # b /\ pc[a] = "done" /\ pc[b] = "done" /\ startedAfter[b] = a
    /\ lastActor = b /\ lastEvent = "hit" /\ query[a] = query[b]
    /\ requests[a] > 0 /\ requests[b] = 0
    /\ result[b] = result[a] /\ result[a] # <<>> /\ now > backedAt[a]

\* C4: after three failed requests in a row (no successful request between
\* them) the invocation has stopped: it is resolved with the records
\* accumulated so far, and a fourth failure in a row never happens.
C4_ThreeFailuresInARowResolve ==
  \A i \in InvIds :
    failRun[i] >= 3 =>
      /\ failRun[i] = 3
      /\ pc[i] = "done"
      /\ result[i] = Expected(query[i], start[i])

C4_Witness ==
  \E i \in InvIds :
    /\ failRun[i] = 3 /\ pc[i] = "done" /\ lastEvent = "failure" /\ lastActor = i
    /\ result[i] # <<>> /\ requests[i] = 4

\* C5: a successful batch with zero records ends the aggregation at once:
\* the invocation is resolved with the records accumulated before it, awaits
\* no delay, and its error counter still holds the failures that preceded
\* the batch.
C5_EmptyBatchEndsAggregation ==
  \A i \in InvIds :
    (lastActor = i /\ lastEvent = "empty") =>
      /\ pc[i] = "done"
      /\ timer[i] = 0
      /\ consecutiveErrors[i] = failRun[i]
      /\ result[i] = Expected(query[i], start[i])

C5_Witness ==
  \E i \in InvIds :
    /\ lastActor = i /\ lastEvent = "empty" /\ pc[i] = "done"
    /\ consecutiveErrors[i] = 2 /\ result[i] # <<>>

\* C6: at every read, JobCache.get answers with the stored records exactly
\* when now - storedAt <= 1 hour and leaves the entry in place; when
\* now - storedAt > 1 hour it reports a miss and the entry is gone after the
\* read.  (The read is the one getJobs makes when an invocation starts.)
C6_GetHitsExactlyWithinTTL ==
  [][\A i \in InvIds :
       (pc[i] = "idle" /\ pc'[i] # "idle") =>
         LET key == url(query'[i], 0) IN
           IF key \in DOMAIN cache
           THEN IF now - cache[key].timestamp <= 60 * 60 * 1000
                THEN /\ pc'[i] = "done" /\ result'[i] = cache[key].data
                     /\ key \in DOMAIN cache' /\ cache'[key] = cache[key]
                ELSE pc'[i] = "fetching" /\ key \notin DOMAIN cache'
           ELSE pc'[i] = "fetching"]_vars

C6_Witness ==
  \E i, j \in InvIds :
    /\ i # j /\ lastActor = i /\ lastEvent = "expired" /\ pc[i] = "fetching"
    /\ url(query[i], 0) \notin DOMAIN cache
    /\ pc[j] = "done" /\ result[j] # <<>> /\ url(query[j], 0) = url(query[i], 0)

\* C13: an invocation's first request is at start offset 0; the request
\* after a failed one is at the same offset; the offset changes only when
\* the request at the current offset succeeded with at least one record,
\* and then by exactly 25.
C13_OffsetsAdvanceWithoutGap ==
  [][\A i \in InvIds :
       /\ (pc[i] = "idle" /\ pc'[i] = "fetching") => start'[i] = 0
       /\ (pc[i] = "fetching" /\ lastActor' = i /\ lastEvent' = "failure")
            => start'[i] = start[i]
       /\ (pc[i] = "backoff" /\ pc'[i] = "fetching") => start'[i] = start[i]
       /\ start'[i] # start[i] =>
            /\ pc[i] = "fetching" /\ lastActor' = i /\ lastEvent' = "batch"
            /\ fetchJobBatch(query[i], start[i]) # <<>>
            /\ start'[i] = start[i] + 25]_vars

C13_Witness ==
  \E i \in InvIds :
    /\ pc[i] = "fetching" /\ lastActor = i /\ lastEvent = "request"
    /\ start[i] = 25 /\ failRun[i] = 2 /\ requests[i] = 4

\* C14: in the step that leaves the loop (after an empty batch, at the
\* limit, or at the error ceiling) the cache is written exactly when the
\* returned sequence is non-empty: then the entry under url(0) holds that
\* sequence, stamped now, and no other entry changes; when the returned
\* sequence is empty the cache is unchanged, and an identical query started
\* next, no entry being under its key, issues a request.
C14_CacheWrittenIffAccumulatorNonEmpty ==
  [][\A i \in InvIds :
       /\ (pc[i] = "fetching" /\ pc'[i] = "done") =>
            LET key == url(query[i], 0) IN
              IF result'[i] # <<>>
              THEN /\ key \in DOMAIN cache'
                   /\ cache'[key] = [data |-> result'[i], timestamp |-> now]
                   /\ DOMAIN cache' = DOMAIN cache \cup {key}
                   /\ \A k \in DOMAIN cache \ {key} : cache'[k] = cache[k]
              ELSE cache' = cache
       /\ \A b \in InvIds \ {i} :
            ( /\ lastActor = i /\ pc[i] = "done" /\ requests[i] > 0 /\ result[i] = <<>>
              /\ pc[b] = "idle" /\ pc'[b] # "idle" /\ query'[b] = query[i]
              /\ url(query[i], 0) \notin DOMAIN cache )
            => (pc'[b] = "fetching" /\ requests'[b] = 1)]_vars

C14_Witness ==
  \E i, j \in InvIds :
    /\ i # j /\ pc[i] = "done" /\ requests[i] = 3 /\ result[i] = <<>>
    /\ query[j] = query[i] /\ startedAfter[j] = i /\ requests[j] = 1
    /\ pc[j] = "done" /\ lastActor = j /\ lastEvent = "batch" /\ result[j] # <<>>
    /\ cache[url(query[j], 0)] = [data |-> result[j], timestamp |-> now]

\* C15 as stated: consecutiveErrors always equals the number of failed
\* requests since the last successful non-empty batch (every such batch
\* resets it to 0), lies between 0 and 3, and an invocation whose counter is
\* 3 has stopped.
C15_CounterIsResetByEveryBatch ==
  \A i \in InvIds :
    /\ consecutiveErrors[i] = failRun[i]
    /\ consecutiveErrors[i] \in 0 .. 3
    /\ consecutiveErrors[i] = 3 => pc[i] = "done"

\* C15 amended: the counter equals the number of failed requests since the
\* last successful non-empty batch as long as the loop runs, and when the
\* loop ends on a failure or on an empty batch; the batch that reaches the
\* limit ends the loop without resetting it.  It lies between 0 and 3, an
\* invocation whose counter is 3 has stopped, and an invocation stops on a
\* failure only when that failure is the third since the last successful
\* non-empty batch.
C15_CounterCountsFailuresWhileLooping ==
  \A i \in InvIds :
    /\ (pc[i] # "done" \/ (lastActor = i /\ lastEvent \in {"failure", "empty"}))
         => consecutiveErrors[i] = failRun[i]
    /\ failRun[i] <= consecutiveErrors[i]
    /\ consecutiveErrors[i] \in 0 .. 3
    /\ consecutiveErrors[i] = 3 => pc[i] = "done"
    /\ (pc[i] = "done" /\ lastActor = i /\ lastEvent = "failure") => failRun[i] = 3

C15_Witness ==
  \E i \in InvIds :
    /\ \A j \in InvIds \ {i} : pc[j] = "idle"
    /\ failures = 3 /\ requests[i] = 4 /\ start[i] = 25
    /\ pc[i] = "backoff" /\ consecutiveErrors[i] = 1 /\ failRun[i] = 1

\* C16: the first failure in a row is followed by a wait of 2000 ms and
\* the second by a wait of 4000 ms, and the next request is issued only
\* from that wait; the third failure in a row resolves the invocation with
\* no wait, and a resolved invocation issues no request.
C16_BackoffDoublesThenStops ==
  [][\A i \in InvIds :
       /\ (pc[i] = "fetching" /\ lastActor' = i /\ lastEvent' = "failure") =>
            /\ failRun'[i] = 1 => (pc'[i] = "backoff" /\ timer'[i] = 2000)
            /\ failRun'[i] = 2 => (pc'[i] = "backoff" /\ timer'[i] = 4000)
            /\ failRun'[i] = 3 => (pc'[i] = "done" /\ timer'[i] = 0)
            /\ failRun'[i] \in 1 .. 3
            /\ requests'[i] = requests[i]
       /\ (requests'[i] > requests[i] /\ failRun[i] > 0) =>
            /\ pc[i] = "backoff"
            /\ timer[i] = IF failRun[i] = 1 THEN 2000 ELSE 4000
       /\ pc[i] = "done" => (requests'[i] = requests[i] /\ pc'[i] = "done")]_vars

C16_Witness ==
  \E i \in InvIds :
    /\ pc[i] = "fetching" /\ lastActor = i /\ lastEvent = "request"
    /\ failRun[i] = 2 /\ start[i] = 0 /\ requests[i] = 3

\* C17: a successful non-empty batch that does not reach the limit is
\* followed by a delay of at least 2000 ms and under 3000 ms, and the next
\* request is issued only out of that delay; the batch that reaches the
\* limit and the empty batch resolve the invocation with no delay.
C17_PacingDelayBetweenBatches ==
  [][\A i \in InvIds :
       LET jobs    == fetchJobBatch(query[i], start[i])
           limit   == query[i].limit.num
           atLimit == limit > 0 /\ Len(allJobs[i]) + Len(jobs) >= limit
       IN /\ (pc[i] = "fetching" /\ lastActor' = i /\ lastEvent' \in {"batch", "empty"}) =>
               /\ requests'[i] = requests[i]
               /\ IF jobs = <<>> \/ atLimit
                  THEN pc'[i] = "done" /\ timer'[i] = 0
                  ELSE pc'[i] = "pacing" /\ timer'[i] >= 2000 /\ timer'[i] < 3000
          /\ (requests'[i] > requests[i] /\ pc[i] # "idle" /\ failRun[i] = 0) =>
               (pc[i] = "pacing" /\ timer[i] >= 2000 /\ timer[i] < 3000)]_vars

C17_Witness ==
  \E i \in InvIds :
    /\ pc[i] = "fetching" /\ lastActor = i /\ lastEvent = "request"
    /\ failRun[i] = 0 /\ start[i] = 50 /\ requests[i] = 3 /\ Len(allJobs[i]) = 27

\* every entry is the whole sequence one resolved invocation returned,
\* stamped with that invocation's store time
EntriesAreWholeResults ==
  \A key \in DOMAIN cache :
    /\ key \in DOMAIN storedBy /\ storedBy[key] \in InvIds
    /\ LET w == storedBy[key] IN
         /\ pc[w] = "done" /\ requests[w] > 0 /\ result[w] # <<>>
         /\ cache[key] = [data |-> result[w], timestamp |-> backedAt[w]]

\* C18: under every interleaving, each entry is the complete sequence
\* returned by one invocation, the last to store under the key, stamped
\* with its store time; an entry appears or changes only by being written
\* with the sequence of an invocation that resolves in that step and whose
\* key it is, and is removed only when older than the TTL.
C18_EntryIsOneInvocationsResult ==
  [][/\ EntriesAreWholeResults'
     /\ \A key \in DOMAIN cache \cup DOMAIN cache' :
          IF key \notin DOMAIN cache' THEN now - cache[key].timestamp > TTL
          ELSE IF key \in DOMAIN cache /\ cache'[key] = cache[key] THEN storedBy'[key] = storedBy[key]
          ELSE \E i \in InvIds :
                 /\ pc[i] = "fetching" /\ pc'[i] = "done" /\ url(query[i], 0) = key
                 /\ cache'[key] = [data |-> result'[i], timestamp |-> now]
                 /\ storedBy'[key] = i]_vars

C18_Witness ==
  \E a, b \in InvIds :
    LET key == url(query[a], 0) IN
      /\ a # b /\ pc[a] = "done" /\ pc[b] = "done" /\ url(query[b], 0) = key
      /\ requests[a] > 1 /\ requests[b] > 0 /\ startedAfter[b] = a
      /\ result[a] # <<>> /\ result[b] # <<>> /\ result[a] # result[b]
      /\ backedAt[a] < backedAt[b] /\ now <= TTL
      /\ lastActor = b /\ key \in DOMAIN cache /\ storedBy[key] = b
      /\ cache[key] = [data |-> result[b], timestamp |-> now]

\* what a read of the cache at the current time can tell: the entries no
\* older than the TTL
LiveEntries(c) == [k \in {x \in DOMAIN c : now - c[x].timestamp <= TTL} |-> c[k]]

\* C19: a step of clearCache removes exactly the entries older than the TTL
\* and leaves the others as they were; at every moment the cache differs
\* from the cache of a run in which clearCache was never called only by
\* entries older than the TTL, so every read (and with it every later
\* query's result and requests) is the same in both.
C19_SweepRemovesOnlyExpiredEntries ==
  [][/\ (pc' = pc /\ now' = now /\ cache' # cache) =>
          /\ DOMAIN cache' = {k \in DOMAIN cache : ~(now - cache[k].timestamp > TTL)}
          /\ \A k \in DOMAIN cache' : cache'[k] = cache[k]
          /\ getCacheSize(cache') < getCacheSize(cache)
     /\ LiveEntries(cache)' = LiveEntries(unswept)'
     /\ \A key \in DOMAIN unswept' :
          JobCacheGet(cache', key, now') = JobCacheGet(unswept', key, now')]_vars

C19_Witness ==
  \E a, b \in InvIds :
    /\ a # b /\ pc[a] = "done" /\ requests[a] > 0 /\ result[a] # <<>>
    /\ now - backedAt[a] > TTL /\ url(query[a], 0) \notin DOMAIN cache
    /\ url(query[a], 0) \in DOMAIN unswept
    /\ pc[b] = "done" /\ requests[b] > 0 /\ url(query[b], 0) \in DOMAIN cache
    /\ now - backedAt[b] <= TTL /\ cache[url(query[b], 0)].data = result[b]

---------------------------------------------------------------------------
(* Claims about the loop against an arbitrary source (SpecLoop) *)

\* C20: a query with a limit N > 0 issues at most 3 * N requests and is
\* resolved in the end, whatever batches and failures it meets; a query
\* with limit 0 is resolved only by an empty batch or by the third failure
\* in a row, so it is still running for as long as batches are non-empty.
C20_LimitBoundsRequestsAndTerminates ==
  /\ [](pc[1] # "idle" =>
          /\ query[1].limit.num > 0 => requests[1] <= 3 * query[1].limit.num
          /\ (query[1].limit.num = 0 /\ pc[1] = "done") =>
               \/ lastEvent = "empty"
               \/ lastEvent = "failure" /\ failRun[1] = 3)
  /\ ((pc[1] # "idle" /\ query[1].limit.num > 0) ~> pc[1] = "done")

C20_Witness ==
  /\ pc[1] = "done" /\ query[1].limit.num = 3 /\ requests[1] = 9
  /\ Len(result[1]) = 3 /\ failures = 6 /\ lastEvent = "batch"

\* C20, the unbounded case: with limit 0, after MaxRequests requests that
\* all brought non-empty batches the invocation is still fetching
C20_UnboundedWitness ==
  /\ pc[1] = "fetching" /\ query[1].limit.num = 0 /\ requests[1] = MaxRequests
  /\ failures = 0 /\ Len(allJobs[1]) >= MaxRequests - 1

\* the records of a sequence of batches, one batch after the other
RECURSIVE Concatenated(_)
Concatenated(batches) ==
  IF batches = <<>> THEN <<>> ELSE Head(batches).jobs \o Concatenated(Tail(batches))

\* C21: an invocation that missed the cache returns the records of the
\* non-empty batches its requests brought, each batch once and in the order
\* of the offsets 0, 25, 50, ..., cut to the first limit records when
\* limit > 0 and whole otherwise; failed requests and their retries add and
\* remove nothing.
C21_ResultIsConcatenationOfBatches ==
  (pc[1] = "done" /\ requests[1] > 0) =>
    LET all   == Concatenated(received[1])
        limit == query[1].limit.num
    IN /\ \A k \in DOMAIN received[1] : received[1][k].offset = 25 * (k - 1)
       /\ result[1] = IF limit > 0 THEN SubSeq(all, 1, Min(limit, Len(all))) ELSE all

---------------------------------------------------------------------------
(* Claims about the filter normalizer and the URL builder (SpecUrl) *)

\* v names a key of field f's table, in any letter case
Recognized(f, v) == ~IsUndefined(v) /\ toLowerCase(JsString(v)) \in TableKeys(f)

Omitting(f) == [rawQuery EXCEPT ![f] = Undefined]

LowerCased(f) == [rawQuery EXCEPT ![f] = Str(toLowerCase(rawQuery[f].str))]

\* C7: an enum field whose value is no key of its table leaves the URL as
\* if the field were omitted, and rendering raises no error.
C7_UnknownEnumValueIsOmitted ==
  upc = "rendered" =>
    \A f \in EnumFields :
      ~Recognized(f, rawQuery[f]) =>
        /\ ~IsThrow(rendered)
        /\ rendered = url(Query(Omitting(f)), renderStart)

\* C8: for dateSincePosted, experienceLevel, jobType, remoteFilter and
\* sortBy, a key written in any letter case gives the URL its lower-case
\* spelling gives.
C8_EnumLookupIgnoresCase ==
  upc = "rendered" =>
    \A f \in EnumFields \ {"salary"} :
      (IsStr(rawQuery[f]) /\ toLowerCase(rawQuery[f].str) \in TableKeys(f))
        => rendered = url(Query(LowerCased(f)), renderStart)

\* C11: whatever the caller passes for limit and page, the constructed
\* FilterState holds non-negative integers for both, 0 for input that is no
\* number; so the start offset url() sends is never negative.
C11_LimitAndPageAreNonNegativeIntegers ==
  upc \in {"constructed", "rendered"} =>
    /\ \A f \in {"limit", "page"} :
         /\ IsNum(filterState[f]) /\ filterState[f].num >= 0
         /\ IsNaN(Number(rawQuery[f])) => filterState[f] = Num(0)
    /\ upc = "rendered" => renderStart + getPage(filterState) >= 0

\* the code a lookup table holds for a FilterState field: the empty string
\* when the field names none of the table's keys
CodeOf(table, v, fold) ==
  LET key == IF fold /\ IsStr(v) THEN toLowerCase(v.str) ELSE JsString(v)
  IN IF key \in DOMAIN table THEN table[key] ELSE <<>>

sortByCodes ==
  (<<"r","e","c","e","n","t">> :> <<"D","D">>) @@ (<<"r","e","l","e","v","a","n","t">> :> <<"R">>)

ParamIf(name, value) == IF value # <<>> THEN <<<<name, value>>>> ELSE <<>>

\* one parameter per non-empty field, in the documented order, the start
\* parameter always
ParamsInOrder(q, s) ==
  ParamIf(<<"keywords">>, q.keyword.str)
  \o ParamIf(<<"location">>, q.location.str)
  \o ParamIf(<<"f_TPR">>, CodeOf(dateRange, q.dateSincePosted, TRUE))
  \o ParamIf(<<"f_SB2">>, CodeOf(salaryRange, q.salary, FALSE))
  \o ParamIf(<<"f_E">>, CodeOf(experienceRange, q.experienceLevel, TRUE))
  \o ParamIf(<<"f_WT">>, CodeOf(remoteFilterRange, q.remoteFilter, TRUE))
  \o ParamIf(<<"f_JT">>, CodeOf(jobTypeRange, q.jobType, TRUE))
  \o <<<<(<<"start">>), NumToStr(s + q.page.num * 25)>>>>
  \o ParamIf(<<"sortBy">>, CodeOf(sortByCodes, q.sortBy, TRUE))

\* C12: url(start) holds exactly one parameter for each non-empty field of
\* the FilterState, in the order keywords, location, f_TPR, f_SB2, f_E, f_WT,
\* f_JT, start, sortBy, the start parameter always and equal to
\* start + page * 25; a FilterState that differs only in page gives the URL
\* of the start offset shifted by page * 25.
C12_UrlHoldsNonEmptyFieldsInOrder ==
  upc = "rendered" =>
    /\ rendered = Str(UrlPrefix(filterState) \o Serialize(ParamsInOrder(filterState, renderStart)))
    /\ \A p \in 0 .. 2 :
         url([filterState EXCEPT !.page = Num(p)], renderStart)
           = url([filterState EXCEPT !.page = Num(0)], renderStart + p * 25)

---------------------------------------------------------------------------
(* SpecParse: one fetched page is parsed *)

InitParse ==
  /\ OrchInit /\ UrlIdle
  /\ document \in Documents /\ ppc = "fetched" /\ parsed = <<>>

NextParse == Parse /\ UNCHANGED <<orchVars, urlVars>>

SpecParse == InitParse /\ [][NextParse]_vars

---------------------------------------------------------------------------
(* Claims about the document parser (SpecParse) *)

HasPositionAndCompany(job) ==
  trim(Text(job.title)) # <<>> /\ trim(Text(job.subtitle)) # <<>>

\* the containers that carry a position and a company
ValidIndexes == {i \in DOMAIN document : HasPositionAndCompany(document[i])}

\* the k-th of them, in document order
KthValid(k) ==
  CHOOSE i \in ValidIndexes : Cardinality({j \in ValidIndexes : j < i}) = k - 1

\* C9: parseJobList emits one record per listing whose position and company
\* are non-empty after trimming, and none for any other listing; the k-th
\* record comes from the k-th such listing of the document.
C9_RecordIffPositionAndCompany ==
  ppc = "parsed" =>
    /\ Len(parsed) = Cardinality(ValidIndexes)
    /\ \A k \in 1 .. Len(parsed) :
         /\ k <= Cardinality(ValidIndexes)
         /\ parsed[k].position = Str(trim(Text(document[KthValid(k)].title)))
         /\ parsed[k].company = Str(trim(Text(document[KthValid(k)].subtitle)))
         /\ parsed[k].position # EmptyStr /\ parsed[k].company # EmptyStr

C9_Witness ==
  /\ ppc = "parsed" /\ Len(document) = 3 /\ Len(parsed) = 2
  /\ ValidIndexes = {1, 3}
  /\ document[2].title = NoValue
  /\ parsed[1].position # parsed[2].position

RecordFields ==
  {"position", "company", "companyLogo", "location", "date", "agoTime", "salary", "jobUrl"}

\* C10: each of the eight fields of every record is a string, the empty
\* string (or "Not specified" for the salary) when the listing lacks the
\* element or attribute; none is undefined.
C10_EveryFieldIsAString ==
  ppc = "parsed" =>
    \A k \in 1 .. Len(parsed) :
      /\ DOMAIN parsed[k] = RecordFields
      /\ \A f \in RecordFields : IsStr(parsed[k][f])

===========================================================================
